---- MODULE Spec2Model ----
(***************************************************************************)
(* Model of the apollo `service:check` command, its historic-parameter     *)
(* validator (both revisions kept in check.ts), the Engine schema provider *)
(* (both revisions) and the schema provider selector.                      *)
(*                                                                         *)
(* JavaScript numbers are modelled as exact rationals plus NaN.  Strings   *)
(* that the code parses (the validationPeriod flag) are modelled as        *)
(* sequences of one-character strings so that Number() and                 *)
(* moment.duration() can be computed the way the libraries compute them.   *)
(***************************************************************************)
EXTENDS Integers, Sequences, FiniteSets, TLC

\* ------------------------------------------------------------------------
\* Bounds of the model
\* ------------------------------------------------------------------------

\* longest validationPeriod string that is enumerated
MaxPeriodLen == 3

\* ------------------------------------------------------------------------
\* JavaScript numbers: exact rationals n/d (d > 0, lowest terms) and NaN
\* ------------------------------------------------------------------------

RECURSIVE GCD(_, _)
GCD(a, b) == IF b = 0 THEN a ELSE GCD(b, a % b)

Abs(a) == IF a < 0 THEN -a ELSE a

NaN == [nan |-> TRUE, n |-> 0, d |-> 1]

Rat(a, b) ==
    LET g == GCD(Abs(a), b)
    IN  [nan |-> FALSE, n |-> a \div g, d |-> b \div g]

Int2Num(a) == Rat(a, 1)

\* x < y, x > y, x >= y of JavaScript: every comparison with NaN is false
NumLt(x, y) == ~x.nan /\ ~y.nan /\ x.n * y.d < y.n * x.d
NumGt(x, y) == NumLt(y, x)
NumGe(x, y) == ~x.nan /\ ~y.nan /\ x.n * y.d >= y.n * x.d

\* a * x for an integer a
NumScale(a, x) == IF x.nan THEN NaN ELSE Rat(a * x.n, x.d)

\* x / k for an integer k > 0
NumDiv(x, k) == IF x.nan THEN NaN ELSE Rat(x.n, x.d * k)

\* Number.isNaN and Number.isInteger
NumberIsNaN(x) == x.nan
NumberIsInteger(x) == ~x.nan /\ x.d = 1

\* ------------------------------------------------------------------------
\* Strings as character sequences; Number(string) and moment.duration(string)
\* ------------------------------------------------------------------------

Digits == {"0", "1"}
Alphabet == Digits \cup {"-", "P", "T", "D", "H"}

DigitVal(c) == IF c = "0" THEN 0 ELSE 1

RECURSIVE DigitsVal(_)
DigitsVal(s) ==
    IF s = <<>> THEN 0
    ELSE 10 * DigitsVal(SubSeq(s, 1, Len(s) - 1)) + DigitVal(s[Len(s)])

IsDigits(s) == \A i \in 1..Len(s) : s[i] \in Digits

\* the pattern [-+]?[0-9,.]* restricted to Alphabet
IsSignedDigits(s) ==
    \/ IsDigits(s)
    \/ Len(s) >= 1 /\ s[1] = "-" /\ IsDigits(Tail(s))

\* Number(str): "" is 0, an optionally signed digit string is its value,
\* everything else over Alphabet is NaN
Number(s) ==
    IF s = <<>> THEN Int2Num(0)
    ELSE IF IsDigits(s) THEN Int2Num(DigitsVal(s))
    ELSE IF s[1] = "-" /\ Len(s) >= 2 /\ IsDigits(Tail(s))
         THEN Int2Num(-DigitsVal(Tail(s)))
    ELSE NaN

\* first index of character c in s, 0 when absent
IndexOf(s, c) ==
    IF \E i \in 1..Len(s) : s[i] = c
    THEN CHOOSE i \in 1..Len(s) : s[i] = c /\ \A j \in 1..(i - 1) : s[j] # c
    ELSE 0

\* moment's parseIso(inp, sign) for a captured group; an absent group,
\* "" and "-" all give 0
parseIso(g, sign) ==
    IF g = <<>> \/ g = <<"-">> THEN 0
    ELSE IF g[1] = "-" THEN -DigitsVal(Tail(g)) * sign
    ELSE DigitsVal(g) * sign

\* moment's isoRegex  ^(-|\+)?P(?:(g)Y)?(?:(g)M)?(?:(g)W)?(?:(g)D)?
\*                     (?:T(?:(g)H)?(?:(g)M)?(?:(g)S)?)?$
\* restricted to Alphabet: the day group and the hour group remain.
\* The result is [match, days, hours].
isoRegex(s) ==
    LET neg   == Len(s) >= 1 /\ s[1] = "-"
        sign  == IF neg THEN -1 ELSE 1
        b     == IF neg THEN Tail(s) ELSE s
        r     == IF b = <<>> THEN <<>> ELSE Tail(b)
        kD    == IndexOf(r, "D")
        dayG  == IF kD = 0 THEN <<>> ELSE SubSeq(r, 1, kD - 1)
        r2    == IF kD = 0 THEN r ELSE SubSeq(r, kD + 1, Len(r))
        r3    == IF r2 = <<>> THEN <<>> ELSE Tail(r2)
        hasH  == r3 # <<>>
        hourG == IF hasH THEN SubSeq(r3, 1, Len(r3) - 1) ELSE <<>>
        ok    == /\ Len(b) >= 1 /\ b[1] = "P"
                 /\ IsSignedDigits(dayG)
                 /\ r2 = <<>> \/ r2[1] = "T"
                 /\ hasH => (r3[Len(r3)] = "H" /\ IsSignedDigits(hourG))
    IN  [match |-> ok,
         days  |-> IF ok THEN parseIso(dayG, sign) ELSE 0,
         hours |-> IF ok THEN parseIso(hourG, sign) ELSE 0]

SecondsPerDay == 86400
SecondsPerHour == 3600

\* duration(n, "days").asSeconds() for a number n
durationDaysAsSeconds(x) == NumScale(SecondsPerDay, x)

\* duration(str).asSeconds(): a string that matches neither the ASP.NET
\* pattern (needs ":") nor isoRegex gives the zero duration
durationAsSeconds(s) ==
    LET m == isoRegex(s)
    IN  IF m.match
        THEN Int2Num(m.days * SecondsPerDay + m.hours * SecondsPerHour)
        ELSE Int2Num(0)

\* ------------------------------------------------------------------------
\* validateHistoricParams (check.ts, first revision: exported function;
\* second revision: method of ServiceCheck)
\* ------------------------------------------------------------------------

\* outcome of a call: an Error thrown for a flag, or the returned record
Threw(flag) == [threw |-> TRUE, error |-> flag, params |-> <<>>]
Returned(p) == [threw |-> FALSE, error |-> "none", params |-> <<p>>]
Pending == [threw |-> FALSE, error |-> "pending", params |-> <<>>]

\* if (from >= 0) throw ...
invalidDuration_strict(from) == NumGt(from, Int2Num(0))
invalidDuration(from) == NumGe(from, Int2Num(0))

\* if (!Number.isInteger(queryCountThreshold) || queryCountThreshold < 1)
invalidThreshold_zero(queryCountThreshold) ==
    ~NumberIsInteger(queryCountThreshold)
        \/ NumLt(queryCountThreshold, Int2Num(0))
invalidThreshold(queryCountThreshold) ==
    ~NumberIsInteger(queryCountThreshold)
        \/ NumLt(queryCountThreshold, Int2Num(1))

\* first revision: Number.isNaN(Number(p)) || p < 0 || p > 100
invalidPercentage(queryCountThresholdPercentage) ==
    \/ NumberIsNaN(queryCountThresholdPercentage)
    \/ NumLt(queryCountThresholdPercentage, Int2Num(0))
    \/ NumGt(queryCountThresholdPercentage, Int2Num(100))

\* second revision: p < 0 || p > 100
ServiceCheck_invalidPercentage(queryCountThresholdPercentage) ==
    \/ NumLt(queryCountThresholdPercentage, Int2Num(0))
    \/ NumGt(queryCountThresholdPercentage, Int2Num(100))

\* const asPercentage = queryCountThresholdPercentage / 100
asPercentage_raw(queryCountThresholdPercentage) ==
    queryCountThresholdPercentage
asPercentage(queryCountThresholdPercentage) ==
    NumDiv(queryCountThresholdPercentage, 100)

\* return { to: -0, from, queryCountThreshold, queryCountThresholdPercentage }
\* (-0 and 0 are the same number; the rationals have one zero)
HistoricQueryParameters(from, queryCountThreshold, pct) ==
    [to |-> NumScale(-1, Int2Num(0)),
     from |-> from,
     queryCountThreshold |-> queryCountThreshold,
     queryCountThresholdPercentage |-> pct]

\* first revision: a validationPeriod that Number() parses is a day count,
\* anything else goes to moment's duration parser
windowInSeconds(validationPeriod) ==
    LET isNumber == ~NumberIsNaN(Number(validationPeriod))
    IN  IF isNumber
        THEN durationDaysAsSeconds(Number(validationPeriod))
        ELSE durationAsSeconds(validationPeriod)

validateHistoricParams(validationPeriod, queryCountThreshold, queryCountThresholdPercentage) ==
    LET from == NumScale(-1, windowInSeconds(validationPeriod))
    IN  IF invalidDuration(from) THEN Threw("validationPeriod")
        ELSE IF invalidThreshold(queryCountThreshold)
             THEN Threw("queryCountThreshold")
        ELSE IF invalidPercentage(queryCountThresholdPercentage)
             THEN Threw("queryCountThresholdPercentage")
        ELSE Returned(HistoricQueryParameters(from, queryCountThreshold,
                        asPercentage(queryCountThresholdPercentage)))

\* second revision: moment's duration parser only, no NaN guard
ServiceCheck_validateHistoricParams(validationPeriod, queryCountThreshold, queryCountThresholdPercentage) ==
    LET from == NumScale(-1, durationAsSeconds(validationPeriod))
    IN  IF invalidDuration(from) THEN Threw("validationPeriod")
        ELSE IF invalidThreshold(queryCountThreshold)
             THEN Threw("queryCountThreshold")
        ELSE IF ServiceCheck_invalidPercentage(queryCountThresholdPercentage)
             THEN Threw("queryCountThresholdPercentage")
        ELSE Returned(HistoricQueryParameters(from, queryCountThreshold,
                        asPercentage(queryCountThresholdPercentage)))

\* ------------------------------------------------------------------------
\* EngineSchemaProvider (both revisions)
\* ------------------------------------------------------------------------

\* JavaScript values of client.service and service.name.  A string is kept
\* as the parts parseServiceSpecificer splits it into: "id" or "id@tag".
Undefined == [type |-> "undefined", id |-> "", tag |-> "none"]
Str(id, tag) == [type |-> "string", id |-> id, tag |-> tag]
EmptyString == Str("", "none")
Obj(kind) == [type |-> "object", id |-> kind, tag |-> "none"]

Truthy(v) == v.type = "object" \/ (v.type = "string" /\ v.id # "")

\* an absent sub-object of the configuration
Absent == [present |-> FALSE, value |-> Undefined]
Present(v) == [present |-> TRUE, value |-> v]

\* isClientConfig(config), isServiceConfig(config): the configuration has
\* a client / a service sub-object
isClientConfig(config) == config.client.present
isServiceConfig(config) == config.service.present

\* parseServiceSpecificer("id@tag") is [id, tag], tag undefined for "id"
parseServiceSpecificer(v) == <<v.id, v.tag>>

EngineConfigs ==
    [client  : {Absent} \cup {Present(v) : v \in
                  {Undefined, EmptyString, Str("svc", "none"),
                   Str("svc", "A"), Obj("endpoint")}},
     service : {Absent} \cup {Present(v) : v \in
                  {Undefined, EmptyString, Str("svc", "none"),
                   Str("svc", "A")}},
     apiKey  : BOOLEAN]

\* the override argument: undefined, or {force?, tag?}
NoOverride == [defined |-> FALSE, force |-> FALSE, tag |-> "none"]
Overrides ==
    {NoOverride} \cup [defined : {TRUE}, force : BOOLEAN, tag : {"none", "A", "B"}]

\* what the registry answers to a query
Responses == {"errors", "nodata", "schema"}

NoSchema == [tag |-> "none", q |-> 0]

\* if (this.schema && (!override || !override.force)) return this.schema
useCache_ignoreForce(cached, override) == cached # NoSchema
useCache(cached, override) ==
    cached # NoSchema /\ (~override.defined \/ ~override.force)

\* the service-name checks of the client / service branch
serviceNameError(config) ==
    IF isClientConfig(config)
    THEN IF config.client.value.type # "string"
         THEN "Service name not found for client" ELSE "none"
    ELSE IF isServiceConfig(config)
    THEN IF config.service.value.type # "string"
         THEN "Service name not found for service" ELSE "none"
    ELSE "none"

\* if (!engine.apiKey) throw new Error("ENGINE_API_KEY not found")
missingApiKey_never(config) == FALSE
missingApiKey(config) == ~config.apiKey

\* first revision: client ? client.service : service ? service.name : null
\* second revision: assigned in the branch that checked it, else undefined
serviceName(r, config) ==
    IF r = 1
    THEN IF config.client.present THEN config.client.value
         ELSE IF config.service.present THEN config.service.value
         ELSE Undefined
    ELSE IF isClientConfig(config) THEN config.client.value
         ELSE IF isServiceConfig(config) THEN config.service.value
         ELSE Undefined

\* tag: override && override.tag ? override.tag : tag, with tag = "current"
\* when the service reference embeds none
queryTag_ignoreOverride(override, name) ==
    LET parsed == parseServiceSpecificer(name)
    IN  IF parsed[2] = "none" THEN "current" ELSE parsed[2]
queryTag(override, name) ==
    LET parsed == parseServiceSpecificer(name)
        tag == IF parsed[2] = "none" THEN "current" ELSE parsed[2]
    IN  IF override.defined /\ override.tag # "none" THEN override.tag ELSE tag

\* One call of resolveSchema on a provider whose fields are cached (the
\* schema), client (engineClient constructed) and queries (number of queries
\* issued so far); the registry would answer `response`.  The result gives
\* the fields after the call and what the caller gets.
resolveSchema(r, config, cached, client, queries, override, response) ==
    LET fail(err, cl) ==
            [schema |-> cached, engineClient |-> cl, queries |-> queries,
             outcome |-> "threw", error |-> err, returned |-> NoSchema,
             queryTag |-> "none"]
        name == serviceName(r, config)
        tag == queryTag(override, name)
        built == [tag |-> tag, q |-> queries + 1]
    IN  IF useCache(cached, override)
        THEN [schema |-> cached, engineClient |-> client, queries |-> queries,
              outcome |-> "returned", error |-> "none", returned |-> cached,
              queryTag |-> "none"]
        ELSE IF serviceNameError(config) # "none"
        THEN fail(serviceNameError(config), client)
        ELSE IF ~client /\ missingApiKey(config)
        THEN fail("ENGINE_API_KEY not found", client)
        ELSE IF ~Truthy(name)
        THEN fail("Unable to find service name for Engine", TRUE)
        ELSE IF response = "errors"
        THEN [schema |-> cached, engineClient |-> TRUE, queries |-> queries + 1,
              outcome |-> "threw", error |-> "registry errors",
              returned |-> NoSchema, queryTag |-> tag]
        ELSE IF response = "nodata"
        THEN [schema |-> cached, engineClient |-> TRUE, queries |-> queries + 1,
              outcome |-> "threw", error |-> "Unable to get schema from Apollo Engine",
              returned |-> NoSchema, queryTag |-> tag]
        ELSE [schema |-> built, engineClient |-> TRUE, queries |-> queries + 1,
              outcome |-> "returned", error |-> "none", returned |-> built,
              queryTag |-> tag]

\* onSchemaChange(_handler): throw new Error("Polling of Engine not
\* implemented yet"); the return after it is never reached
onSchemaChange_noop(handler) == [outcome |-> "returned", error |-> "none"]
onSchemaChange(handler) ==
    [outcome |-> "threw", error |-> "Polling of Engine not implemented yet"]

\* ------------------------------------------------------------------------
\* schemaProviderFromConfig
\* ------------------------------------------------------------------------

\* isLocalServiceConfig(client.service): the object names a local schema file
isLocalServiceConfig(v) == v.type = "object" /\ v.id = "localSchemaFile"

NoService ==
    [present |-> FALSE, localSchemaFile |-> Undefined, endpoint |-> Undefined,
     name |-> Undefined]

FieldValues == {Undefined, EmptyString, Str("x", "none")}

SelectorConfigs ==
    [service : {NoService} \cup
                 [present : {TRUE}, localSchemaFile : FieldValues,
                  endpoint : FieldValues, name : FieldValues],
     client  : {Absent} \cup {Present(v) : v \in
                  {Undefined, EmptyString, Str("svc", "none"),
                   Obj("localSchemaFile"), Obj("endpoint")}}]

Provider(kind, from) == [threw |-> FALSE, provider |-> kind, from |-> from]
NoProvider == [threw |-> TRUE, provider |-> "none", from |-> "none"]
NotSelected == [threw |-> FALSE, provider |-> "none", from |-> "none"]

\* the body of if (isServiceConfig(config)) { ... }
serviceProvider_nameFirst(service) ==
    IF Truthy(service.localSchemaFile) THEN Provider("File", "service")
    ELSE IF Truthy(service.name) THEN Provider("Engine", "service")
    ELSE IF Truthy(service.endpoint) THEN Provider("Introspection", "service")
    ELSE NotSelected
serviceProvider(service) ==
    IF Truthy(service.localSchemaFile) THEN Provider("File", "service")
    ELSE IF Truthy(service.endpoint) THEN Provider("Introspection", "service")
    ELSE IF Truthy(service.name) THEN Provider("Engine", "service")
    ELSE NotSelected

\* the body of if (isClientConfig(config)) { ... }
clientProvider(service) ==
    IF service.type = "string" THEN Provider("Engine", "client")
    ELSE IF Truthy(service)
    THEN IF isLocalServiceConfig(service) THEN Provider("File", "client")
         ELSE Provider("Introspection", "client")
    ELSE NotSelected

schemaProviderFromConfig(config) ==
    LET fromService ==
            IF isServiceConfig(config) THEN serviceProvider(config.service)
            ELSE NotSelected
        fromClient ==
            IF isClientConfig(config) THEN clientProvider(config.client.value)
            ELSE NotSelected
    IN  IF fromService # NotSelected THEN fromService
        ELSE IF fromClient # NotSelected THEN fromClient
        ELSE NoProvider

\* ------------------------------------------------------------------------
\* ServiceCheck.run
\* ------------------------------------------------------------------------

\* longest list of changes a check result carries
MaxChanges == 2

ChangeTypes == {"FAILURE", "WARNING", "NOTICE"}
ChangeLists == UNION {[1..n -> ChangeTypes] : n \in 0..MaxChanges}

\* const tag = flags.tag || config.tag || "current"
resolveTag(flagTag, configTag) ==
    IF flagTag # "none" THEN flagTag
    ELSE IF configTag # "none" THEN configTag
    ELSE "current"

\* gitInfo(): the metadata, or undefined when collecting it failed; a
\* failure inside is swallowed and never rejects the promise
gitInfo(vcsFails) == IF vcsFails THEN "undefined" ELSE "context"

\* after ctx.gitContext = await gitInfo() the task validates the flags and,
\* unless that throws, calls project.engine.checkSchema; gitContext is not
\* inspected
taskProceeds_needsGit(gitContext, historicParameters) ==
    gitContext # "undefined" /\ ~historicParameters.threw
taskProceeds(gitContext, historicParameters) == ~historicParameters.threw

NotCalled ==
    [called |-> FALSE, tag |-> "none", gitContext |-> "unset",
     historicParameters |-> <<>>]

\* the argument of project.engine.checkSchema: tag is flags.tag
checkSchemaArgs(flagTag, gitContext, historicParameters) ==
    [called |-> TRUE, tag |-> flagTag, gitContext |-> gitContext,
     historicParameters |-> historicParameters.params]

NoExit == [called |-> FALSE, code |-> 0]

\* this.exit(): oclif's Command.exit(code = 0) throws the ExitError that
\* ends the process with the given code; run passes no code
exit == [called |-> TRUE, code |-> 0]

isFailure(type) == type = "FAILURE"

\* the part of run after runTasks: the failures, the message or the table,
\* and the exit
render(changes) ==
    LET failures == SelectSeq(changes, isFailure)
    IN  IF Len(changes) = 0
        THEN [log |-> <<"No changes present between schemas">>, exit |-> NoExit]
        ELSE [log |-> <<"\n", "table", "\n">>,
              exit |-> IF Len(failures) > 0 THEN exit ELSE NoExit]

\* ------------------------------------------------------------------------
\* State
\* ------------------------------------------------------------------------

VARIABLES
    rev,           \* revision of the sources in use: 1 or 2
    vPeriod,       \* validator input: validationPeriod, a character sequence
    vQct,          \* validator input: queryCountThreshold
    vPct,          \* validator input: queryCountThresholdPercentage
    vOut,          \* validator outcome (Pending before the call)
    pConfig,       \* EngineSchemaProvider.config
    schema,        \* EngineSchemaProvider.schema (NoSchema when unset)
    engineClient,  \* EngineSchemaProvider.engineClient has been constructed
    nQueries,      \* registry queries issued by the provider so far
    nCalls,        \* calls made on the provider so far
    lastCall,      \* the latest call on the provider and what it gave
    everResolved,  \* some resolveSchema call has returned a schema
    sConfig,       \* the configuration given to schemaProviderFromConfig
    sOut,          \* what schemaProviderFromConfig gave (NotSelected before)
    cName,         \* config.name is set
    cFlagTag,      \* flags.tag ("none" when not given)
    cConfigTag,    \* config.tag ("none" when not given)
    cPc,           \* where run is: the await it is suspended at, or its end
    cResolveTag,   \* the tag given to project.resolveSchema
    cGitFailed,    \* collecting the version-control metadata failed
    cGitContext,   \* ctx.gitContext
    cCheckArgs,    \* the argument of project.engine.checkSchema
    cChanges,      \* diffToPrevious.changes of the check result
    cLog,          \* what run has logged
    cExit,         \* the exit run has asked for
    cError         \* the error run has thrown ("none" when none)

validatorVars == <<vPeriod, vQct, vPct, vOut>>
providerVars ==
    <<pConfig, schema, engineClient, nQueries, nCalls, lastCall, everResolved>>
selectorVars == <<sConfig, sOut>>
commandVars ==
    <<cName, cFlagTag, cConfigTag, cPc, cResolveTag, cGitFailed, cGitContext,
      cCheckArgs, cChanges, cLog, cExit, cError>>
vars == <<rev, validatorVars, providerVars, selectorVars, commandVars>>

Revisions == {1, 2}

\* ------------------------------------------------------------------------
\* The Engine provider under sequences of calls
\* ------------------------------------------------------------------------

\* most calls made on one provider
MaxCalls == 3

NoCall ==
    [op |-> "none", override |-> NoOverride, response |-> "none",
     outcome |-> "none", error |-> "none", returned |-> NoSchema,
     queryTag |-> "none"]

ProviderIdle ==
    /\ pConfig = [client |-> Absent, service |-> Absent, apiKey |-> FALSE]
    /\ schema = NoSchema
    /\ engineClient = FALSE
    /\ nQueries = 0
    /\ nCalls = 0
    /\ lastCall = NoCall
    /\ everResolved = FALSE

SelectorIdle ==
    /\ sConfig = [service |-> NoService, client |-> Absent]
    /\ sOut = NotSelected

CommandIdle ==
    /\ cName = FALSE
    /\ cFlagTag = "none"
    /\ cConfigTag = "none"
    /\ cPc = "idle"
    /\ cResolveTag = "none"
    /\ cGitFailed = FALSE
    /\ cGitContext = "unset"
    /\ cCheckArgs = NotCalled
    /\ cChanges = <<>>
    /\ cLog = <<>>
    /\ cExit = NoExit
    /\ cError = "none"

\* ------------------------------------------------------------------------
\* The validator applied to enumerated inputs
\* ------------------------------------------------------------------------

Periods == UNION {[1..n -> Alphabet] : n \in 0..MaxPeriodLen}

\* 1.5 stands for the non-integers, NaN for a flag that is no number
Thresholds == {Int2Num(-1), Int2Num(0), Int2Num(1), Int2Num(5), Rat(3, 2), NaN}
Percentages ==
    {Int2Num(-1), Int2Num(0), Int2Num(10), Int2Num(100), Int2Num(101),
     Rat(1, 2), NaN}

ValidatorIdle ==
    /\ vPeriod = <<>>
    /\ vQct = Int2Num(1)
    /\ vPct = Int2Num(0)
    /\ vOut = Pending

InitValidate ==
    /\ rev \in Revisions
    /\ vPeriod \in Periods
    /\ vQct \in Thresholds
    /\ vPct \in Percentages
    /\ vOut = Pending
    /\ ProviderIdle
    /\ SelectorIdle
    /\ CommandIdle

CallValidateHistoricParams ==
    /\ rev = 1
    /\ vOut = Pending
    /\ vOut' = validateHistoricParams(vPeriod, vQct, vPct)
    /\ UNCHANGED <<rev, vPeriod, vQct, vPct, providerVars, selectorVars, commandVars>>

CallServiceCheckValidateHistoricParams ==
    /\ rev = 2
    /\ vOut = Pending
    /\ vOut' = ServiceCheck_validateHistoricParams(vPeriod, vQct, vPct)
    /\ UNCHANGED <<rev, vPeriod, vQct, vPct, providerVars, selectorVars, commandVars>>

NextValidate ==
    \/ CallValidateHistoricParams
    \/ CallServiceCheckValidateHistoricParams

SpecValidate == InitValidate /\ [][NextValidate]_vars

\* ------------------------------------------------------------------------
\* Claims about the validator (specification SpecValidate)
\* ------------------------------------------------------------------------

Called == vOut # Pending

\* the duration, in seconds, that the revision in use reads from the flag
PeriodSeconds ==
    IF rev = 1 THEN windowInSeconds(vPeriod) ELSE durationAsSeconds(vPeriod)

PositivePeriod == ~PeriodSeconds.nan /\ PeriodSeconds.n > 0
PositiveIntegerThreshold == ~vQct.nan /\ vQct.d = 1 /\ vQct.n >= 1
PercentageInRange ==
    ~vPct.nan /\ vPct.n >= 0 /\ vPct.n <= 100 * vPct.d

P1D == <<"P", "1", "D">>
P0D == <<"P", "0", "D">>

\* C3: with a strictly positive period of s seconds, an integer threshold
\* >= 1 and a percentage p in [0,100] the validator returns exactly
\* {to: 0, from: -s, queryCountThreshold, queryCountThresholdPercentage: p/100};
\* ("P1D", 5, 10) gives {to: 0, from: -86400, 5, 0.1}.
C3_ValidInputsGiveExactRecord ==
    Called =>
        /\ (PositivePeriod /\ PositiveIntegerThreshold /\ PercentageInRange) =>
              /\ ~vOut.threw
              /\ vOut.params =
                    << [to |-> [nan |-> FALSE, n |-> 0, d |-> 1],
                        from |-> [nan |-> FALSE, n |-> -PeriodSeconds.n,
                                  d |-> PeriodSeconds.d],
                        queryCountThreshold |-> vQct,
                        queryCountThresholdPercentage |->
                            Rat(vPct.n, 100 * vPct.d)] >>
        /\ (vPeriod = P1D /\ vQct = Int2Num(5) /\ vPct = Int2Num(10)) =>
              vOut.params =
                    << [to |-> [nan |-> FALSE, n |-> 0, d |-> 1],
                        from |-> [nan |-> FALSE, n |-> -86400, d |-> 1],
                        queryCountThreshold |-> [nan |-> FALSE, n |-> 5, d |-> 1],
                        queryCountThresholdPercentage |->
                            [nan |-> FALSE, n |-> 1, d |-> 10]] >>

C3_Witness ==
    /\ Called /\ vPeriod = P1D /\ vQct = Int2Num(5) /\ vPct = Int2Num(10)
    /\ ~vOut.threw

\* C4: a validationPeriod of zero, negative or unparseable duration (for
\* instance "0", "P0D") makes the validator fail with the duration error,
\* whatever the two thresholds are.
C4_NonPositivePeriodFails ==
    Called =>
        /\ ~PositivePeriod => vOut = Threw("validationPeriod")
        /\ vPeriod \in {<<"0">>, P0D} => vOut = Threw("validationPeriod")

C4_Witness ==
    /\ Called /\ vPeriod = P0D /\ PeriodSeconds = Int2Num(0)
    /\ vQct = NaN /\ vPct = Int2Num(101)
    /\ vOut = Threw("validationPeriod")

\* C5: with a valid period, a queryCountThreshold that is not a positive
\* integer (0, negative, 1.5) makes the validator fail with the
\* queryCountThreshold error and return no record.
C5_BadThresholdFails ==
    (Called /\ PositivePeriod /\ ~PositiveIntegerThreshold) =>
        /\ vOut = Threw("queryCountThreshold")
        /\ vOut.params = <<>>

C5_Witness ==
    /\ Called /\ PositivePeriod /\ vQct = Rat(3, 2)
    /\ vOut = Threw("queryCountThreshold")

\* C6: with a valid period and threshold the validator fails for every
\* percentage below 0 or above 100, succeeds at 0 (fraction 0.0) and at 100
\* (fraction 1.0), and every returned fraction lies in [0,1].
ReturnedFraction == vOut.params[1].queryCountThresholdPercentage

C6_PercentageBounds ==
    (Called /\ PositivePeriod /\ PositiveIntegerThreshold) =>
        /\ (NumLt(vPct, Int2Num(0)) \/ NumGt(vPct, Int2Num(100))) =>
              vOut = Threw("queryCountThresholdPercentage")
        /\ vPct = Int2Num(0) =>
              ~vOut.threw /\ ReturnedFraction = [nan |-> FALSE, n |-> 0, d |-> 1]
        /\ vPct = Int2Num(100) =>
              ~vOut.threw /\ ReturnedFraction = [nan |-> FALSE, n |-> 1, d |-> 1]
        /\ ~vOut.threw =>
              /\ ~ReturnedFraction.nan
              /\ 0 <= ReturnedFraction.n
              /\ ReturnedFraction.n <= ReturnedFraction.d

\* ------------------------------------------------------------------------
\* Specification SpecProvider: one Engine provider, any sequence of calls
\* ------------------------------------------------------------------------

InitProvider ==
    /\ rev \in Revisions
    /\ ValidatorIdle
    /\ SelectorIdle
    /\ CommandIdle
    /\ pConfig \in EngineConfigs
    /\ schema = NoSchema
    /\ engineClient = FALSE
    /\ nQueries = 0
    /\ nCalls = 0
    /\ lastCall = NoCall
    /\ everResolved = FALSE

ResolveSchema ==
    /\ nCalls < MaxCalls
    /\ \E override \in Overrides, response \in Responses :
          LET res == resolveSchema(rev, pConfig, schema, engineClient,
                                   nQueries, override, response)
          IN  /\ schema' = res.schema
              /\ engineClient' = res.engineClient
              /\ nQueries' = res.queries
              /\ lastCall' =
                    [op |-> "resolveSchema", override |-> override,
                     response |-> IF res.queries = nQueries THEN "none"
                                  ELSE response,
                     outcome |-> res.outcome, error |-> res.error,
                     returned |-> res.returned, queryTag |-> res.queryTag]
              /\ everResolved' = (everResolved \/ res.outcome = "returned")
    /\ nCalls' = nCalls + 1
    /\ UNCHANGED <<rev, validatorVars, selectorVars, commandVars, pConfig>>

OnSchemaChange ==
    /\ nCalls < MaxCalls
    /\ LET res == onSchemaChange("handler")
       IN  lastCall' =
              [op |-> "onSchemaChange", override |-> NoOverride,
               response |-> "none", outcome |-> res.outcome,
               error |-> res.error, returned |-> NoSchema,
               queryTag |-> "none"]
    /\ nCalls' = nCalls + 1
    /\ UNCHANGED <<rev, validatorVars, selectorVars, commandVars, pConfig,
                   schema, engineClient, nQueries, everResolved>>

NextProvider == ResolveSchema \/ OnSchemaChange

SpecProvider == InitProvider /\ [][NextProvider]_vars

\* ------------------------------------------------------------------------
\* Claims about the Engine provider (specification SpecProvider)
\* ------------------------------------------------------------------------

\* this step is a call of resolveSchema / of onSchemaChange
ResolveStep == nCalls' = nCalls + 1 /\ lastCall'.op = "resolveSchema"
SubscribeStep == nCalls' = nCalls + 1 /\ lastCall'.op = "onSchemaChange"

\* the call of this step sets force
ForcedStep == lastCall'.override.defined /\ lastCall'.override.force

\* C2: once a resolveSchema call has succeeded, a later call without force
\* returns the cached schema and issues no registry query; a later call
\* with force issues a new query and, when the query succeeds, returns and
\* caches the newly fetched schema.
C2_CachedUnlessForced ==
    [][ (ResolveStep /\ everResolved) =>
          /\ schema # NoSchema
          /\ ~ForcedStep =>
                /\ lastCall'.outcome = "returned"
                /\ lastCall'.returned = schema
                /\ schema' = schema
                /\ nQueries' = nQueries
          /\ ForcedStep =>
                /\ nQueries' = nQueries + 1
                /\ lastCall'.response = "schema" =>
                      /\ lastCall'.outcome = "returned"
                      /\ lastCall'.returned.q = nQueries'
                      /\ lastCall'.returned # schema
                      /\ schema' = lastCall'.returned
                /\ lastCall'.response # "schema" =>
                      /\ lastCall'.outcome = "threw"
                      /\ schema' = schema ]_vars

\* three calls: a fetch, a cached answer, then a forced fetch that succeeds
C2_Witness ==
    /\ nCalls = 3 /\ nQueries = 2
    /\ lastCall.op = "resolveSchema"
    /\ lastCall.override.defined /\ lastCall.override.force
    /\ lastCall.outcome = "returned"
    /\ schema.q = 2 /\ lastCall.returned = schema

ConfigurationErrors ==
    {"ENGINE_API_KEY not found", "Service name not found for client",
     "Service name not found for service"}

\* C9: a resolveSchema call that has to contact the registry (nothing
\* cached, or force set) on a configuration without an API key fails with a
\* configuration error: no client is constructed, no query is issued and the
\* cached schema stays as it was.
C9_NoApiKeyFails ==
    [][ (ResolveStep /\ ~pConfig.apiKey /\ (schema = NoSchema \/ ForcedStep)) =>
          /\ lastCall'.outcome = "threw"
          /\ lastCall'.error \in ConfigurationErrors
          /\ serviceNameError(pConfig) = "none" =>
                lastCall'.error = "ENGINE_API_KEY not found"
          /\ lastCall'.returned = NoSchema
          /\ ~engineClient /\ ~engineClient'
          /\ nQueries' = nQueries
          /\ schema' = schema ]_vars

C9_Witness ==
    /\ lastCall.op = "resolveSchema"
    /\ ~pConfig.apiKey
    /\ pConfig.client = Present(Str("svc", "none"))
    /\ lastCall.override.defined /\ lastCall.override.force
    /\ lastCall.error = "ENGINE_API_KEY not found"
    /\ ~engineClient /\ nQueries = 0 /\ schema = NoSchema

\* C10: onSchemaChange fails with an error on every invocation, whether a
\* schema is cached or not; it returns no unsubscribe handler and leaves the
\* cached schema and the client as they were.  (The class has no field that
\* could hold a handler.)
C10_OnSchemaChangeThrows ==
    [][ SubscribeStep =>
          /\ lastCall'.outcome = "threw"
          /\ lastCall'.error = "Polling of Engine not implemented yet"
          /\ schema' = schema
          /\ engineClient' = engineClient
          /\ nQueries' = nQueries ]_vars

C10_Witness ==
    /\ lastCall.op = "onSchemaChange"
    /\ lastCall.outcome = "threw"
    /\ schema # NoSchema /\ engineClient

\* ------------------------------------------------------------------------
\* Specification SpecSelector: schemaProviderFromConfig on every shape
\* ------------------------------------------------------------------------

InitSelector ==
    /\ rev = 2
    /\ ValidatorIdle
    /\ ProviderIdle
    /\ CommandIdle
    /\ sConfig \in SelectorConfigs
    /\ sOut = NotSelected

SelectProvider ==
    /\ sOut = NotSelected
    /\ sOut' = schemaProviderFromConfig(sConfig)
    /\ UNCHANGED <<rev, validatorVars, providerVars, commandVars, sConfig>>

NextSelector == SelectProvider

SpecSelector == InitSelector /\ [][NextSelector]_vars

Selected == sOut # NotSelected

\* a field of the service configuration is set: present and not empty
IsSet(v) == v.type # "undefined" /\ v # EmptyString

\* the service rows of the table decide: the configuration is
\* service-shaped and one of its three fields is set
ServiceDecides ==
    /\ sConfig.service.present
    /\ \/ IsSet(sConfig.service.localSchemaFile)
       \/ IsSet(sConfig.service.endpoint)
       \/ IsSet(sConfig.service.name)

\* C7: schemaProviderFromConfig follows the decision table: service-shaped:
\* File if localSchemaFile is set, else Introspection if endpoint is set,
\* else Engine if name is set; client-shaped: Engine if client.service is a
\* string, else File if it is a local-file-shaped object, else Introspection
\* if it is any other present object; an error if no row matches.
C7_DecisionTable ==
    Selected =>
      LET svc == sConfig.service
          cl  == sConfig.client
      IN  /\ (svc.present /\ IsSet(svc.localSchemaFile)) =>
                sOut = Provider("File", "service")
          /\ (svc.present /\ ~IsSet(svc.localSchemaFile) /\ IsSet(svc.endpoint)) =>
                sOut = Provider("Introspection", "service")
          /\ (svc.present /\ ~IsSet(svc.localSchemaFile) /\ ~IsSet(svc.endpoint)
                /\ IsSet(svc.name)) =>
                sOut = Provider("Engine", "service")
          /\ (~ServiceDecides /\ cl.present /\ cl.value.type = "string") =>
                sOut = Provider("Engine", "client")
          /\ (~ServiceDecides /\ cl.present /\ cl.value = Obj("localSchemaFile")) =>
                sOut = Provider("File", "client")
          /\ (~ServiceDecides /\ cl.present /\ cl.value = Obj("endpoint")) =>
                sOut = Provider("Introspection", "client")
          /\ (~ServiceDecides /\ (~cl.present \/ cl.value.type = "undefined")) =>
                sOut = NoProvider
          /\ sOut.threw <=> sOut.provider = "none"

\* endpoint and name both set, no local file: the endpoint wins
C7_Witness ==
    /\ Selected
    /\ sConfig.service.present
    /\ ~IsSet(sConfig.service.localSchemaFile)
    /\ IsSet(sConfig.service.endpoint)
    /\ IsSet(sConfig.service.name)
    /\ sOut = Provider("Introspection", "service")

\* ------------------------------------------------------------------------
\* Specification SpecCheck: one run of the service:check command
\* ------------------------------------------------------------------------

InitCheck ==
    /\ rev \in Revisions
    /\ vPeriod \in {P1D, P0D, <<"1">>}
    /\ vQct \in {Int2Num(1), Int2Num(0)}
    /\ vPct \in {Int2Num(0), Int2Num(101)}
    /\ vOut = Pending
    /\ ProviderIdle
    /\ SelectorIdle
    /\ cName \in BOOLEAN
    /\ cFlagTag \in {"none", "A"}
    /\ cConfigTag \in {"none", "B"}
    /\ cPc = "start"
    /\ cResolveTag = "none"
    /\ cGitFailed = FALSE
    /\ cGitContext = "unset"
    /\ cCheckArgs = NotCalled
    /\ cChanges = <<>>
    /\ cLog = <<>>
    /\ cExit = NoExit
    /\ cError = "none"

\* the task up to await project.resolveSchema({ tag })
RunTask ==
    /\ cPc = "start"
    /\ IF ~cName
       THEN /\ cPc' = "failed"
            /\ cError' = "No service found to link to Engine"
            /\ UNCHANGED cResolveTag
       ELSE /\ cPc' = "resolveSchema"
            /\ cResolveTag' = resolveTag(cFlagTag, cConfigTag)
            /\ UNCHANGED cError
    /\ UNCHANGED <<rev, validatorVars, providerVars, selectorVars, cName,
                   cFlagTag, cConfigTag, cGitFailed, cGitContext, cCheckArgs,
                   cChanges, cLog, cExit>>

\* project.resolveSchema settles; the task goes on to await gitInfo()
ResolveSchemaSettles ==
    /\ cPc = "resolveSchema"
    /\ \E ok \in BOOLEAN :
          IF ok
          THEN cPc' = "gitInfo" /\ UNCHANGED cError
          ELSE cPc' = "failed" /\ cError' = "resolveSchema"
    /\ UNCHANGED <<rev, validatorVars, providerVars, selectorVars, cName,
                   cFlagTag, cConfigTag, cResolveTag, cGitFailed, cGitContext,
                   cCheckArgs, cChanges, cLog, cExit>>

validate(r, period, qct, pct) ==
    IF r = 1 THEN validateHistoricParams(period, qct, pct)
    ELSE ServiceCheck_validateHistoricParams(period, qct, pct)

\* gitInfo() settles; the task validates the flags and calls checkSchema
GitInfoSettles ==
    /\ cPc = "gitInfo"
    /\ \E vcsFails \in BOOLEAN :
          /\ cGitFailed' = vcsFails
          /\ cGitContext' = gitInfo(vcsFails)
    /\ vOut' = validate(rev, vPeriod, vQct, vPct)
    /\ IF taskProceeds(cGitContext', vOut')
       THEN /\ cCheckArgs' = checkSchemaArgs(cFlagTag, cGitContext', vOut')
            /\ cPc' = "checkSchema"
            /\ UNCHANGED cError
       ELSE /\ cPc' = "failed"
            /\ cError' = IF vOut'.threw THEN vOut'.error ELSE "gitInfo"
            /\ UNCHANGED cCheckArgs
    /\ UNCHANGED <<rev, vPeriod, vQct, vPct, providerVars, selectorVars, cName,
                   cFlagTag, cConfigTag, cResolveTag, cChanges, cLog, cExit>>

\* checkSchema settles: its error ends the command, its result is rendered
CheckSchemaSettles ==
    /\ cPc = "checkSchema"
    /\ \/ /\ cPc' = "failed"
          /\ cError' = "checkSchema"
          /\ UNCHANGED <<cChanges, cLog, cExit>>
       \/ \E changes \in ChangeLists :
             /\ cChanges' = changes
             /\ cLog' = render(changes).log
             /\ cExit' = render(changes).exit
             /\ cPc' = "done"
             /\ UNCHANGED cError
    /\ UNCHANGED <<rev, validatorVars, providerVars, selectorVars, cName,
                   cFlagTag, cConfigTag, cResolveTag, cGitFailed, cGitContext,
                   cCheckArgs>>

NextCheck ==
    \/ RunTask
    \/ ResolveSchemaSettles
    \/ GitInfoSettles
    \/ CheckSchemaSettles

SpecCheck == InitCheck /\ [][NextCheck]_vars

\* the status the process ends with: 1 for an error thrown out of run, the
\* code of the exit run asked for, 0 otherwise
ExitStatus ==
    IF cError # "none" THEN 1 ELSE IF cExit.called THEN cExit.code ELSE 0

HasFailure(changes) == \E i \in 1..Len(changes) : changes[i] = "FAILURE"

\* C1: after run has received a check result: no changes: the no-changes
\* message and no failure exit; at least one FAILURE among the changes: a
\* nonzero exit status, whatever the other changes are; changes but no
\* FAILURE: success.
C1_ExitFollowsFailures ==
    cPc = "done" =>
        /\ Len(cChanges) = 0 =>
              /\ cLog = <<"No changes present between schemas">>
              /\ ExitStatus = 0
        /\ HasFailure(cChanges) => ExitStatus # 0
        /\ (Len(cChanges) > 0 /\ ~HasFailure(cChanges)) => ExitStatus = 0

ExpectedTag ==
    IF cFlagTag # "none" THEN cFlagTag
    ELSE IF cConfigTag # "none" THEN cConfigTag
    ELSE "current"

\* C11: the tag is resolved once as the --tag flag, else the config's tag,
\* else "current", and that resolved tag is the one given both to
\* project.resolveSchema and to the registry's checkSchema, whether or not
\* the flag and the config tag are present.
C11_OneTagForBoth ==
    /\ cResolveTag # "none" => cResolveTag = ExpectedTag
    /\ cCheckArgs.called =>
          /\ cResolveTag = ExpectedTag
          /\ cCheckArgs.tag = cResolveTag

\* the effective tag of the call of this step: the override tag if one is
\* supplied, else the tag in the service reference, else "current"
EffectiveTag(override) ==
    LET ref == IF pConfig.client.present THEN pConfig.client.value
               ELSE pConfig.service.value
    IN  IF override.defined /\ override.tag # "none" THEN override.tag
        ELSE IF ref.tag # "none" THEN ref.tag
        ELSE "current"

\* C12 as stated: every schema a resolveSchema call returns was fetched by
\* a query whose tag is that call's effective tag.
C12_ReturnedSchemaHasCallTag ==
    (lastCall.op = "resolveSchema" /\ lastCall.outcome = "returned") =>
        lastCall.returned.tag = EffectiveTag(lastCall.override)

\* C12 as amended: a call that contacts the registry (nothing cached, or
\* force set) queries with its effective tag, and the schema it returns was
\* fetched by that query; a call without force on a provider that has a
\* schema cached returns the cached schema, whatever tag that was fetched
\* for.
C12_QueriedSchemaHasCallTag ==
    [][ ResolveStep =>
          /\ lastCall'.queryTag # "none" =>
                lastCall'.queryTag = EffectiveTag(lastCall'.override)
          /\ lastCall'.outcome = "returned" =>
                IF schema = NoSchema \/ ForcedStep
                THEN /\ lastCall'.queryTag = EffectiveTag(lastCall'.override)
                     /\ lastCall'.returned.tag = lastCall'.queryTag
                     /\ lastCall'.returned.q = nQueries'
                     /\ nQueries' = nQueries + 1
                ELSE /\ lastCall'.returned = schema
                     /\ lastCall'.queryTag = "none" ]_vars

\* a forced call with override tag B, on a service reference that embeds
\* tag A, after a schema was already fetched
C12_Witness ==
    /\ lastCall.op = "resolveSchema"
    /\ lastCall.outcome = "returned"
    /\ pConfig.client = Present(Str("svc", "A"))
    /\ lastCall.override = [defined |-> TRUE, force |-> TRUE, tag |-> "B"]
    /\ lastCall.queryTag = "B"
    /\ schema.tag = "B" /\ schema.q = 2

====
